---------------------------- MODULE Spec2Model ----------------------------
(***************************************************************************)
(* A model of the news pipeline of backend/ai_news_process.py:             *)
(*   fetch_entries -> filter_ai -> simple_dedup -> to_triplets -> print.   *)
(*                                                                         *)
(* A Python str is a sequence of characters; a character is a one-letter   *)
(* TLA+ string.  A character that cannot be written in a TLA+ string       *)
(* literal is an atom of its own: "cy-i" is the Cyrillic small letter i,   *)
(* "CY-i" the capital one, EM_DASH and ELLIPSIS the two punctuation marks  *)
(* the record builder writes.  Every string function below is computed as  *)
(* the Python code computes it, on strings of any length (the definitions  *)
(* avoid recursion that is linear in the length of the string).            *)
(***************************************************************************)
EXTENDS Integers, Sequences, FiniteSets, TLC

(***************************************************************************)
(* Program constants (ai_news_process.py, lines 16-28).  The threshold 0.7 *)
(* is kept as the fraction 7/10: for set sizes far below 10^14 the float   *)
(* comparison len(a&b)/len(a|b) >= 0.7 is the comparison of the fractions. *)
(***************************************************************************)
WINDOW_HOURS_DEFAULT == 24
MAX_TEXT_PER_ITEM == 1500
SIMPLE_DUP_JACCARD_NUM == 7
SIMPLE_DUP_JACCARD_DEN == 10

AI_KEYWORDS ==
  << <<"cy-i","cy-s","cy-k","cy-u","cy-s","cy-s","cy-t","cy-v","cy-e","cy-n","cy-n","cy-y","cy-j"," ","cy-i","cy-n","cy-t","cy-e","cy-l","cy-l","cy-e","cy-k","cy-t">>,
     <<"cy-n","cy-e","cy-j","cy-r","cy-o","cy-s","cy-e","cy-t">>,
     <<"cy-d","cy-z">>,
     <<"cy-m","cy-a","cy-sh","cy-i","cy-n","cy-n","cy-o","cy-e"," ","cy-o","cy-b","cy-u","cy-ch","cy-e","cy-n","cy-i","cy-e">>,
     <<"cy-g","cy-l","cy-u","cy-b","cy-o","cy-k","cy-o","cy-e"," ","cy-o","cy-b","cy-u","cy-ch","cy-e","cy-n","cy-i","cy-e">>,
     <<"cy-b","cy-o","cy-l","cy-soft","cy-sh","cy-a","cy-ya"," ","cy-ya","cy-z","cy-y","cy-k","cy-o","cy-v","cy-a","cy-ya"," ","cy-m","cy-o","cy-d","cy-e","cy-l","cy-soft">>,
     <<"l","l","m">>,
     <<"cy-m","cy-o","cy-d","cy-e","cy-l","cy-soft">>,
     <<"cy-g","cy-e","cy-n","cy-e","cy-r","cy-a","cy-t","cy-i","cy-v","cy-n">>,
     <<"a","i">>,
     <<"a","r","t","i","f","i","c","i","a","l"," ","i","n","t","e","l","l","i","g","e","n","c","e">>,
     <<"n","e","u","r","a","l">>,
     <<"m","a","c","h","i","n","e"," ","l","e","a","r","n","i","n","g">>,
     <<"d","e","e","p"," ","l","e","a","r","n","i","n","g">>,
     <<"l","a","r","g","e"," ","l","a","n","g","u","a","g","e"," ","m","o","d","e","l">>,
     <<"g","e","n","e","r","a","t","i","v","e">>,
     <<"f","o","u","n","d","a","t","i","o","n"," ","m","o","d","e","l">>,
     <<"l","l","m">> >>

(***************************************************************************)
(* Characters.                                                             *)
(***************************************************************************)
EM_DASH == "<em-dash>"
ELLIPSIS == "<ellipsis>"

LatinLower ==
  <<"a","b","c","d","e","f","g","h","i","j","k","l","m",
    "n","o","p","q","r","s","t","u","v","w","x","y","z">>
LatinUpper ==
  <<"A","B","C","D","E","F","G","H","I","J","K","L","M",
    "N","O","P","Q","R","S","T","U","V","W","X","Y","Z">>
Digits == {"0","1","2","3","4","5","6","7","8","9"}
\* The 33 Cyrillic letters, by transliteration; "yo" is the letter the range
\* a-ya leaves out and the pattern names on its own.
CyrillicCodes ==
  <<"a","b","v","g","d","e","zh","z","i","j","k","l","m","n","o","p","r","s",
    "t","u","f","h","c","ch","sh","sch","hard","y","soft","eh","yu","ya","yo">>
CyrillicLower == [i \in DOMAIN CyrillicCodes |-> "cy-" \o CyrillicCodes[i]]
CyrillicUpper == [i \in DOMAIN CyrillicCodes |-> "CY-" \o CyrillicCodes[i]]

Range(f) == {f[i] : i \in DOMAIN f}

\* str.lower(), one character at a time.
LowerMap ==
  [c \in Range(LatinUpper) \cup Range(CyrillicUpper) |->
     IF c \in Range(LatinUpper)
       THEN LatinLower[CHOOSE i \in DOMAIN LatinUpper : LatinUpper[i] = c]
       ELSE CyrillicLower[CHOOSE i \in DOMAIN CyrillicUpper : CyrillicUpper[i] = c]]
CharLower(c) == IF c \in DOMAIN LowerMap THEN LowerMap[c] ELSE c

\* The characters str.strip() removes and the pattern \s matches.
Whitespace == {" ", "\t", "\n", "\r"}
IsSpace(c) == c \in Whitespace

\* The character class of WORD_RE: [A-Za-z<Cyrillic>0-9].
WordChars ==
  Range(LatinLower) \cup Range(LatinUpper) \cup Digits
    \cup Range(CyrillicLower) \cup Range(CyrillicUpper)
IsWordChar(c) == c \in WordChars

(***************************************************************************)
(* Strings.                                                                *)
(***************************************************************************)
Rep(c, n) == [i \in 1..n |-> c]

\* The concatenation f[lo] \o ... \o f[hi] of a sequence of strings.
RECURSIVE Flatten(_, _, _)
Flatten(f, lo, hi) ==
  IF lo > hi THEN <<>>
  ELSE IF lo = hi THEN f[lo]
  ELSE LET mid == (lo + hi) \div 2
       IN  Flatten(f, lo, mid) \o Flatten(f, mid + 1, hi)

Concat(f) == Flatten(f, 1, Len(f))

\* s[:n]
Prefix(s, n) == IF Len(s) <= n THEN s ELSE SubSeq(s, 1, n)

\* str.lower()
lower(s) == [i \in 1..Len(s) |-> CharLower(s[i])]

\* str.strip()
strip(s) ==
  IF \A i \in 1..Len(s) : IsSpace(s[i]) THEN <<>>
  ELSE LET first == CHOOSE i \in 1..Len(s) :
                      ~IsSpace(s[i]) /\ \A j \in 1..(i - 1) : IsSpace(s[j])
           last == CHOOSE i \in 1..Len(s) :
                      ~IsSpace(s[i]) /\ \A j \in (i + 1)..Len(s) : IsSpace(s[j])
       IN  SubSeq(s, first, last)

\* k in t, for a non-empty k
Contains(t, k) ==
  \E i \in 1..(Len(t) - Len(k) + 1) :
     t[i] = k[1] /\ \A j \in 1..Len(k) : t[i + j - 1] = k[j]

(***************************************************************************)
(* clean_text (lines 41-44): re.sub(r"<[^>]+>", " ", t), then              *)
(* re.sub(r"\s+", " ", t).strip().                                         *)
(***************************************************************************)
\* A match of <[^>]+> starts at a "<" that is followed by at least one
\* character other than ">" and, later, by a ">"; it ends at the first ">"
\* after it.  re.sub takes the leftmost matches and resumes after each: a "<"
\* inside a match starts none, and a "<" lies inside a match exactly when an
\* earlier "<" has no ">" between the two.
TagStarts(t) ==
  LET lt == {i \in 1..Len(t) : t[i] = "<"}
  IN  {i \in lt :
         /\ i < Len(t)
         /\ t[i + 1] # ">"
         /\ \E j \in (i + 2)..Len(t) : t[j] = ">"
         /\ ~ \E i2 \in lt : i2 < i /\ \A k \in (i2 + 1)..(i - 1) : t[k] # ">"}

TagEnd(t, i) ==
  CHOOSE j \in (i + 2)..Len(t) : t[j] = ">" /\ \A k \in (i + 1)..(j - 1) : t[k] # ">"

SubTags(t) ==
  LET starts == TagStarts(t)
      unit(i) == IF i \in starts THEN <<" ">>
                 ELSE IF \E m \in starts : m < i /\ i <= TagEnd(t, m) THEN <<>>
                 ELSE <<t[i]>>
  IN  IF starts = {} THEN t ELSE Concat([i \in 1..Len(t) |-> unit(i)])

SubSpaces(t) ==
  LET unit(i) == IF ~IsSpace(t[i]) THEN <<t[i]>>
                 ELSE IF i > 1 /\ IsSpace(t[i - 1]) THEN <<>>
                 ELSE <<" ">>
  IN  IF \A i \in 1..Len(t) : ~IsSpace(t[i]) THEN t
      ELSE Concat([i \in 1..Len(t) |-> unit(i)])

clean_text(t) == strip(SubSpaces(SubTags(t)))

(***************************************************************************)
(* html.unescape (line 76), for the named references of the characters     *)
(* "<", ">" and "&", with and without their semicolon: the entries of the  *)
(* html5 table that clean_text can tell apart.  A reference is "&", then   *)
(* up to 32 characters that are none of tab, newline, space, "<", "&", "#" *)
(* and ";", then an optional ";".  A name that is not in the table is      *)
(* replaced when a prefix of it is (the longest such prefix), and is left  *)
(* as it stands otherwise.  Numeric references ("&#...") are left as they  *)
(* stand: no input of the model holds one.                                 *)
(***************************************************************************)
EntityNames == << <<"l","t">>, <<"g","t">>, <<"a","m","p">> >>
EntityChars == << "<", ">", "&" >>

IsNameChar(c) == c \notin {"\t", "\n", " ", "<", "&", "#", ";"}

\* The last character of the name that starts after the "&" at i (i when the
\* name is empty).
NameEnd(t, i) ==
  LET hi == IF Len(t) < i + 32 THEN Len(t) ELSE i + 32
  IN  CHOOSE j \in i..hi :
        /\ j = hi \/ ~IsNameChar(t[j + 1])
        /\ \A k \in (i + 1)..j : IsNameChar(t[k])

RefEnd(t, i) ==
  LET e == NameEnd(t, i)
  IN  IF e > i /\ e < Len(t) /\ t[e + 1] = ";" THEN e + 1 ELSE e

IsPrefix(p, s) == Len(p) <= Len(s) /\ \A k \in 1..Len(p) : s[k] = p[k]

\* The replacement of the reference "&" \o s.
RefValue(s) ==
  LET hits == {n \in DOMAIN EntityNames : IsPrefix(EntityNames[n], s)}
  IN  IF hits = {} THEN <<"&">> \o s
      ELSE LET n == CHOOSE h \in hits : TRUE
               name == EntityNames[n]
           IN  IF s = name \/ s = Append(name, ";") THEN <<EntityChars[n]>>
               ELSE <<EntityChars[n]>> \o SubSeq(s, Len(name) + 1, Len(s))

html_unescape(t) ==
  LET amps == {i \in 1..Len(t) : t[i] = "&" /\ NameEnd(t, i) > i}
      unit(i) == IF i \in amps THEN RefValue(SubSeq(t, i + 1, RefEnd(t, i)))
                 ELSE IF \E a \in amps : a < i /\ i <= RefEnd(t, a) THEN <<>>
                 ELSE <<t[i]>>
  IN  IF amps = {} THEN t ELSE Concat([i \in 1..Len(t) |-> unit(i)])

(***************************************************************************)
(* is_ai_related (lines 46-48).                                            *)
(***************************************************************************)
is_ai_related(text) ==
  LET t == lower(text)
  IN  \E n \in DOMAIN AI_KEYWORDS : Contains(t, AI_KEYWORDS[n])

(***************************************************************************)
(* normalize_words (lines 119-122): the set of the matches of WORD_RE in   *)
(* s.lower().  The pattern is greedy, so its matches are the maximal runs  *)
(* of word characters that are at least two characters long.               *)
(***************************************************************************)
MIN_WORD_LEN == 2

normalize_words(s) ==
  LET t == lower(s)
      n == Len(t)
      starts == {i \in 1..n : IsWordChar(t[i]) /\ (i = 1 \/ ~IsWordChar(t[i - 1]))}
      runEnd(i) == CHOOSE j \in i..n :
                     /\ j = n \/ ~IsWordChar(t[j + 1])
                     /\ \A k \in i..j : IsWordChar(t[k])
  IN  {SubSeq(t, i, runEnd(i)) : i \in {i \in starts : runEnd(i) - i + 1 >= MIN_WORD_LEN}}

\* jaccard, were two empty sets wholly alike.
jaccard_EmptyAlike(a, b) ==
  IF a = {} /\ b = {} THEN <<1, 1>>
  ELSE IF a = {} \/ b = {} THEN <<0, 1>>
  ELSE <<Cardinality(a \cap b), Cardinality(a \cup b)>>

(***************************************************************************)
(* jaccard (lines 124-127), as the fraction <<numerator, denominator>>.    *)
(***************************************************************************)
jaccard(a, b) ==
  IF a = {} \/ b = {} THEN <<0, 1>>
  ELSE <<Cardinality(a \cap b), Cardinality(a \cup b)>>

\* The comparison of line 134, were it strict.
AtLeastThreshold_Strict(j) == j[1] * SIMPLE_DUP_JACCARD_DEN > SIMPLE_DUP_JACCARD_NUM * j[2]

\* jaccard(sig, sj) >= SIMPLE_DUP_JACCARD (line 134)
AtLeastThreshold(j) == j[1] * SIMPLE_DUP_JACCARD_DEN >= SIMPLE_DUP_JACCARD_NUM * j[2]

(***************************************************************************)
(* urlparse(link).netloc (line 80): leading whitespace is dropped, a       *)
(* scheme (a letter, then letters, digits, "+", "-", ".", up to the first  *)
(* ":") is split off, and when "//" follows, the network location runs up  *)
(* to the first "/", "?" or "#".                                           *)
(***************************************************************************)
SchemeChars == Range(LatinLower) \cup Range(LatinUpper) \cup Digits \cup {"+", "-", "."}
Letters == Range(LatinLower) \cup Range(LatinUpper)

lstrip(s) ==
  IF \A i \in 1..Len(s) : IsSpace(s[i]) THEN <<>>
  ELSE LET first == CHOOSE i \in 1..Len(s) :
                      ~IsSpace(s[i]) /\ \A j \in 1..(i - 1) : IsSpace(s[j])
       IN  SubSeq(s, first, Len(s))

netloc(link) ==
  LET url == lstrip(link)
      n == Len(url)
      colons == {i \in 1..n : url[i] = ":" /\ \A k \in 1..(i - 1) : url[k] # ":"}
      colon == IF colons = {} THEN 0 ELSE CHOOSE i \in colons : TRUE
      hasScheme == /\ colon > 1
                   /\ url[1] \in Letters
                   /\ \A k \in 1..(colon - 1) : url[k] \in SchemeChars
      rest == IF hasScheme THEN SubSeq(url, colon + 1, n) ELSE url
      m == Len(rest)
      stop == IF \A j \in 3..m : rest[j] \notin {"/", "?", "#"} THEN m + 1
              ELSE CHOOSE j \in 3..m :
                     /\ rest[j] \in {"/", "?", "#"}
                     /\ \A k \in 3..(j - 1) : rest[k] \notin {"/", "?", "#"}
  IN  IF m >= 2 /\ rest[1] = "/" /\ rest[2] = "/" THEN SubSeq(rest, 3, stop - 1)
      ELSE <<>>

(***************************************************************************)
(* Values.  NONE is Python's None (and a missing attribute or key); the    *)
(* empty string is <<>>.  An instant is a number of hours; a feed entry's  *)
(* published_parsed / updated_parsed is absent, a time tuple that          *)
(* datetime() rejects, or a time tuple of an instant.  The ISO string of   *)
(* the instant t is <<t>>, and no date is <<>>.                            *)
(***************************************************************************)
NONE == <<"<None>">>
Falsy(v) == v = NONE \/ v = <<>>

NoTime == [kind |-> "none", t |-> 0]
BadTime == [kind |-> "bad", t |-> 0]
TimeAt(t) == [kind |-> "ok", t |-> t]

NoDate == <<>>
isoformat(t) == <<t>>

Entry(title, link, summary, published, updated) ==
  [title |-> title, link |-> link, summary |-> summary,
   published_parsed |-> published, updated_parsed |-> updated]

RAISES == [kind |-> "raise", entries |-> <<>>]
Parsed(entries) == [kind |-> "ok", entries |-> entries]

(***************************************************************************)
(* fetch_entries (lines 51-84), one feed at a time.                        *)
(***************************************************************************)
\* Lines 66-73: the first of published_parsed, updated_parsed that is there
\* and that datetime() accepts; NoTime when there is none.
EntryTime(e) ==
  IF e.published_parsed.kind = "ok" THEN e.published_parsed
  ELSE IF e.updated_parsed.kind = "ok" THEN e.updated_parsed
  ELSE NoTime

\* TooOld, were an entry with no timestamp dropped as well
\* ("if not dt or dt < cutoff").
TooOld_DropsUndated(dt, cutoff) == dt.kind # "ok" \/ dt.t < cutoff

\* Line 74: dt and dt < cutoff
TooOld(dt, cutoff) == dt.kind = "ok" /\ dt.t < cutoff

\* Lines 61-64: getattr(e, "title", "") or "" and getattr(e, "link", None)
HasTitleAndLink(e) == ~Falsy(e.link) /\ ~Falsy(e.title)

\* Lines 76-83: the item of an entry that is kept.  The key "text" is not
\* set yet.
EntryItem(e) ==
  LET dt == EntryTime(e)
      summary == html_unescape(IF Falsy(e.summary) THEN <<>> ELSE e.summary)
  IN  [title |-> strip(e.title),
       link |-> strip(e.link),
       source |-> netloc(e.link),
       summary |-> clean_text(summary),
       date |-> IF dt.kind = "ok" THEN isoformat(dt.t) ELSE NoDate,
       text |-> NONE]

\* Lines 60-83: the items of one entry (none or one).
EntryItems(e, cutoff) ==
  IF ~HasTitleAndLink(e) THEN <<>>
  ELSE IF TooOld(EntryTime(e), cutoff) THEN <<>>
  ELSE <<EntryItem(e)>>

\* Lines 55-83: the items of one feed; a feed whose parse raises has none.
FeedItems(response, cutoff) ==
  IF response.kind = "raise" THEN <<>>
  ELSE Concat([k \in 1..Len(response.entries) |-> EntryItems(response.entries[k], cutoff)])

(***************************************************************************)
(* fetch_article_text (lines 87-100).  What a link's page gives:           *)
(*   "raise"    fetch_url or extract raises                                *)
(*   "nodoc"    fetch_url returns nothing                                  *)
(*   "notext"   extract returns None                                       *)
(*   "text"     extract returns txt                                        *)
(***************************************************************************)
PageRaises == [kind |-> "raise", txt |-> <<>>]
PageNoDoc == [kind |-> "nodoc", txt |-> <<>>]
PageNoText == [kind |-> "notext", txt |-> <<>>]
PageText(txt) == [kind |-> "text", txt |-> txt]

fetch_article_text(page) ==
  IF page.kind = "text" THEN clean_text(page.txt) ELSE <<>>

(***************************************************************************)
(* filter_ai (lines 103-116), one item at a time.                          *)
(***************************************************************************)
Space == <<" ">>

\* Line 106
Basis(it) == strip(it.title \o Space \o it.summary)

\* Accepts, were an extracted text required of every item.
Accepts_NeedsText(it, full) ==
  /\ full # <<>>
  /\ is_ai_related(Basis(it)) \/ is_ai_related(it.title \o Space \o full)

\* Lines 107-113: whether the item, with its extracted text, is appended.
Accepts(it, full) ==
  IF ~is_ai_related(Basis(it))
    THEN ~(full = <<>> \/ ~is_ai_related(it.title \o Space \o full))
    ELSE TRUE

(***************************************************************************)
(* simple_dedup (lines 129-138), one item at a time.                       *)
(***************************************************************************)
\* The second part of the signature, were the page text never looked at.
TextOrSummary_SummaryOnly(it) == it.summary

\* it.get("text") or it.get("summary", "")
TextOrSummary(it) == IF Falsy(it.text) THEN it.summary ELSE it.text

\* Lines 132-133
Signature(it) == normalize_words(it.title \o Space \o TextOrSummary(it))

\* Line 134
IsDuplicate(sig, sigs) ==
  \E k \in 1..Len(sigs) : AtLeastThreshold(jaccard(sig, sigs[k]))

(***************************************************************************)
(* to_triplets (lines 141-166), one item at a time.                        *)
(***************************************************************************)
\* it.get("text", "").strip()
TextOf(it) == IF it.text = NONE THEN <<>> ELSE strip(it.text)

\* The choice of lines 153-160, were the page text looked at before the title.
SelectText_FullFirst(title, summary, full, url) ==
  IF full # <<>> THEN Prefix(full, MAX_TEXT_PER_ITEM)
  ELSE IF title # <<>> /\ summary # <<>> THEN title \o <<" ", EM_DASH, " ">> \o summary
  ELSE IF title # <<>> THEN title
  ELSE url

\* Lines 153-160
SelectText(title, summary, full, url) ==
  IF title # <<>> /\ summary # <<>> THEN title \o <<" ", EM_DASH, " ">> \o summary
  ELSE IF title # <<>> THEN title
  ELSE IF full # <<>> THEN Prefix(full, MAX_TEXT_PER_ITEM)
  ELSE url

\* s.rsplit(" ", 1)[0]
RSplitHead(s) ==
  IF \A i \in 1..Len(s) : s[i] # " " THEN s
  ELSE LET last == CHOOSE i \in 1..Len(s) :
                     s[i] = " " /\ \A j \in (i + 1)..Len(s) : s[j] # " "
       IN  SubSeq(s, 1, last - 1)

\* Line 163
Truncate(text, cap) == Append(RSplitHead(Prefix(text, cap)), ELLIPSIS)

\* Lines 162-163
CapText(text) ==
  IF Len(text) > MAX_TEXT_PER_ITEM THEN Truncate(text, MAX_TEXT_PER_ITEM) ELSE text

\* Lines 147-165
Triplet(it) ==
  <<CapText(SelectText(strip(it.title), strip(it.summary), TextOf(it), it.link)),
    it.link, it.date>>

(***************************************************************************)
(* The state of one process running main() (lines 169-181), and the world  *)
(* it reads: what each feed and each page returns.  The world is chosen in *)
(* the initial state and does not change, so that a second run reads the   *)
(* same fetched data.                                                      *)
(***************************************************************************)
VARIABLES
  web,        \* web[f]: what feedparser.parse gives for the f-th feed
  cutoff,     \* fetch_entries: cutoff (line 52)
  pc,         \* where main() is: "main", "fetch", "filter", "dedup", "triplets", "done"
  run,        \* 1 for the first run of main(), 2 for the second
  fi,         \* fetch_entries: the index of the feed the loop of line 54 is at
  raw,        \* the item dicts fetch_entries made (its list `items`), in order
  ii,         \* the index the loop of the current stage is at
  ai_items,   \* filter_ai: out, as references to (indices of) the dicts of raw
  kept,       \* simple_dedup: kept, as references to the dicts of raw
  sigs,       \* simple_dedup: sigs
  triples,    \* to_triplets: triples
  output,     \* what the run has printed: no element, or the one printed list
  log,        \* filter_ai: its article fetches and pauses, in order
  out1        \* what the first run printed

vars == <<web, cutoff, pc, run, fi, raw, ii, ai_items, kept, sigs, triples, output, log, out1>>

(***************************************************************************)
(* The world.                                                              *)
(***************************************************************************)
\* The clock of the run, in hours (datetime.now, line 52).
NOW == 48

\* load_feeds: the configured feeds, in order, and the window.
FEEDS == <<"feed-1", "feed-2">>
window_hours == WINDOW_HOURS_DEFAULT

\* Instants around the cutoff NOW - window_hours: before it, on it, after it.
T_OLD == TimeAt(23)
T_CUT == TimeAt(24)
T_NEW == TimeAt(25)

LINK_1 == <<"h","t","t","p",":","/","/","a",".","i","o","/","1">>
LINK_2 == <<"h","t","t","p",":","/","/","b",".","i","o","/","2">>
LINK_3 == <<"h","t","t","p",":","/","/","a",".","i","o","/","3">>
LINK_4 == <<"h","t","t","p",":","/","/","a",".","i","o","/","4">>
LINK_5 == <<"h","t","t","p",":","/","/","a",".","i","o","/","5">>
LINK_6 == <<"h","t","t","p",":","/","/","a",".","i","o","/","6">>
LINK_7 == <<"h","t","t","p",":","/","/","a",".","i","o","/","7">>
LINK_8 == <<"h","t","t","p",":","/","/","c",".","i","o","/","8","?","p","=","1">>
LINK_9 == <<"h","t","t","p",":","/","/","a",".","i","o","/","9">>

\* What each link's page gives.
Page(url) ==
  CASE url = LINK_1 -> PageRaises
    [] url = LINK_2 -> PageNoDoc
    [] url = LINK_3 -> PageText(<<"T","h","e"," ","L","L","M"," ","<","i",">","t","a","l","k","<","/","i",">">>)
    [] url = LINK_4 -> PageRaises
    [] url = LINK_8 -> PageText(<<"<","p",">","f","u","l","l"," "," "," ","b","o","d","y","<","/","p",">">>)
    [] url = LINK_9 -> PageText(<<"n","o","t","h","i","n","g"," ","h","e","r","e">>)
    [] OTHER -> PageNoText

\* The entries a feed may hold.
\*  1  keyword in the title (in capitals), markup and references in the summary, new
\*  2  a near-duplicate of 1 under another link, padded title and link, undated
\*  3  no keyword in title or summary, a keyword in the page; published_parsed is
\*     rejected and updated_parsed is on the cutoff
\*  4  no keyword, the page cannot be fetched; both time tuples are rejected
\*  5  published before the cutoff
\*  6  published_parsed rejected, updated before the cutoff
\*  7  no title
\*  8  a title of blanks, a keyword in the summary, a page with text
\*  9  no keyword in title, summary or page; only updated_parsed is there
\* 10  an empty link
\* 11  the link of 1 with another title and summary
ENTRIES ==
  << Entry(<<"A","I"," ","x">>, LINK_1, <<"<","b",">","b","i","g","<","/","b",">"," "," ","n","e","w","s"," ","&","a","m","p",";"," ","m","o","r","e">>, T_NEW, NoTime),
     Entry(<<" ","a","i"," ","x"," ">>, <<" ">> \o LINK_2 \o <<" ">>, <<"b","i","g"," ","n","e","w","s"," ","&","a","m","p",";"," ","m","o","r","e">>, NoTime, NoTime),
     Entry(<<"n","e","w","s">>, LINK_3, NONE, BadTime, T_CUT),
     Entry(<<"s","t","o","r","y"," ","b">>, LINK_4, <<"x">>, BadTime, BadTime),
     Entry(<<"o","l","d"," ","a","i">>, LINK_5, <<>>, T_OLD, T_NEW),
     Entry(<<"a","i"," ","l","a","t","e">>, LINK_6, <<>>, BadTime, T_OLD),
     Entry(NONE, LINK_7, <<"a","i">>, T_NEW, NoTime),
     Entry(<<" "," ">>, LINK_8, <<"a","i">>, T_NEW, T_OLD),
     Entry(<<"s","t","o","r","y">>, LINK_9, <<"t","e","x","t">>, NoTime, T_NEW),
     Entry(<<"l","l","m">>, <<>>, <<"a","i">>, T_NEW, NoTime),
     Entry(<<"l","l","m"," ","y">>, LINK_1, <<"o","t","h","e","r">>, NoTime, NoTime) >>

\* The most entries the feeds hold together.
MaxEntries == 2

\* The responses of a feed that holds n entries; a feed whose parse raises
\* holds none.
Responses(n) ==
  {Parsed(es) : es \in [1..n -> Range(ENTRIES)]} \cup (IF n = 0 THEN {RAISES} ELSE {})

Webs ==
  UNION { {<<r1, r2>> : r1 \in Responses(n[1]), r2 \in Responses(n[2])} :
          n \in {m \in (0..MaxEntries) \X (0..MaxEntries) : m[1] + m[2] <= MaxEntries} }

(***************************************************************************)
(* main() (lines 169-181).                                                 *)
(***************************************************************************)
Idle ==
  /\ cutoff = 0 /\ fi = 1 /\ raw = <<>> /\ ii = 1 /\ ai_items = <<>>
  /\ kept = <<>> /\ sigs = <<>> /\ triples = <<>> /\ output = <<>> /\ log = <<>>

Init ==
  /\ web \in Webs
  /\ pc = "main" /\ run = 1 /\ out1 = <<>>
  /\ Idle

\* Lines 170-171 and 52-53: fetch_entries is entered.
Start ==
  /\ pc = "main"
  /\ pc' = "fetch"
  /\ cutoff' = NOW - window_hours
  /\ raw' = <<>>
  /\ fi' = 1
  /\ UNCHANGED <<web, run, ii, ai_items, kept, sigs, triples, output, log, out1>>

\* FetchFeed, were the call of feedparser.parse outside any try: a feed whose
\* parse raises ends the run.
FetchFeed_Raising ==
  /\ pc = "fetch" /\ fi <= Len(FEEDS)
  /\ IF web[fi].kind = "raise"
       THEN /\ pc' = "crashed"
            /\ UNCHANGED <<raw, fi>>
       ELSE /\ raw' = raw \o FeedItems(web[fi], cutoff)
            /\ fi' = fi + 1
            /\ pc' = pc
  /\ UNCHANGED <<web, cutoff, run, ii, ai_items, kept, sigs, triples, output, log, out1>>

\* Lines 54-83: one feed.
FetchFeed ==
  /\ pc = "fetch" /\ fi <= Len(FEEDS)
  /\ raw' = raw \o FeedItems(web[fi], cutoff)
  /\ fi' = fi + 1
  /\ UNCHANGED <<web, cutoff, pc, run, ii, ai_items, kept, sigs, triples, output, log, out1>>

\* Lines 84 and 172-175: fetch_entries returns; nothing fetched prints "[]".
FetchReturn ==
  /\ pc = "fetch" /\ fi > Len(FEEDS)
  /\ IF raw = <<>>
       THEN /\ output' = Append(output, <<>>)
            /\ pc' = "done"
       ELSE /\ output' = output
            /\ pc' = "filter"
  /\ ii' = 1 /\ ai_items' = <<>> /\ log' = <<>>
  /\ UNCHANGED <<web, cutoff, run, fi, raw, kept, sigs, triples, out1>>

\* Lines 105-115: one item.  The dict is changed in place (it["text"]) and out
\* holds the dict itself; the pause of line 115 follows line 114 only.
FilterItem ==
  /\ pc = "filter" /\ ii <= Len(raw)
  /\ LET it == raw[ii]
         full == fetch_article_text(Page(it.link))
     IN  /\ raw' = [raw EXCEPT ![ii].text = full]
         /\ IF Accepts(it, full)
              THEN /\ ai_items' = Append(ai_items, ii)
                   /\ log' = log \o <<"fetch", "sleep">>
              ELSE /\ ai_items' = ai_items
                   /\ log' = Append(log, "fetch")
  /\ ii' = ii + 1
  /\ UNCHANGED <<web, cutoff, pc, run, fi, kept, sigs, triples, output, out1>>

\* FilterReturn, were sigs a list that outlives the call of simple_dedup.
FilterReturn_StaleSigs ==
  /\ pc = "filter" /\ ii > Len(raw)
  /\ IF ai_items = <<>>
       THEN /\ output' = Append(output, <<>>)
            /\ pc' = "done"
       ELSE /\ output' = output
            /\ pc' = "dedup"
  /\ ii' = 1 /\ kept' = <<>> /\ sigs' = sigs
  /\ UNCHANGED <<web, cutoff, run, fi, raw, ai_items, triples, log, out1>>

\* Lines 116 and 176-179: filter_ai returns; nothing left prints "[]".
FilterReturn ==
  /\ pc = "filter" /\ ii > Len(raw)
  /\ IF ai_items = <<>>
       THEN /\ output' = Append(output, <<>>)
            /\ pc' = "done"
       ELSE /\ output' = output
            /\ pc' = "dedup"
  /\ ii' = 1 /\ kept' = <<>> /\ sigs' = <<>>
  /\ UNCHANGED <<web, cutoff, run, fi, raw, ai_items, triples, log, out1>>

\* DedupItem, were a near-duplicate merged into the item it is close to: the
\* kept item takes the date of the later one.
DedupItem_Merging ==
  /\ pc = "dedup" /\ ii <= Len(ai_items)
  /\ LET it == raw[ai_items[ii]]
         sig == Signature(it)
     IN  IF IsDuplicate(sig, sigs)
           THEN LET k == CHOOSE k \in 1..Len(sigs) : AtLeastThreshold(jaccard(sig, sigs[k]))
                IN  /\ raw' = [raw EXCEPT ![kept[k]].date = it.date]
                    /\ UNCHANGED <<kept, sigs>>
           ELSE /\ kept' = Append(kept, ai_items[ii])
                /\ sigs' = Append(sigs, sig)
                /\ raw' = raw
  /\ ii' = ii + 1
  /\ UNCHANGED <<web, cutoff, pc, run, fi, ai_items, triples, output, log, out1>>

\* Lines 131-137: one item.
DedupItem ==
  /\ pc = "dedup" /\ ii <= Len(ai_items)
  /\ LET sig == Signature(raw[ai_items[ii]])
     IN  IF IsDuplicate(sig, sigs)
           THEN UNCHANGED <<kept, sigs>>
           ELSE /\ kept' = Append(kept, ai_items[ii])
                /\ sigs' = Append(sigs, sig)
  /\ ii' = ii + 1
  /\ UNCHANGED <<web, cutoff, pc, run, fi, raw, ai_items, triples, output, log, out1>>

\* Lines 138 and 180: simple_dedup returns, to_triplets is entered.
DedupReturn ==
  /\ pc = "dedup" /\ ii > Len(ai_items)
  /\ pc' = "triplets"
  /\ ii' = 1 /\ triples' = <<>>
  /\ UNCHANGED <<web, cutoff, run, fi, raw, ai_items, kept, sigs, output, log, out1>>

\* Lines 146-165: one item.
TripletItem ==
  /\ pc = "triplets" /\ ii <= Len(kept)
  /\ triples' = Append(triples, Triplet(raw[kept[ii]]))
  /\ ii' = ii + 1
  /\ UNCHANGED <<web, cutoff, pc, run, fi, raw, ai_items, kept, sigs, output, log, out1>>

\* Lines 166 and 181: to_triplets returns and the list is printed.
PrintTriples ==
  /\ pc = "triplets" /\ ii > Len(kept)
  /\ output' = Append(output, triples)
  /\ pc' = "done"
  /\ UNCHANGED <<web, cutoff, run, fi, raw, ii, ai_items, kept, sigs, triples, log, out1>>

\* main() is called once more, on the same world with the same clock.  What
\* the first call printed is set aside; its locals are dead, and every stage
\* makes its own anew (lines 53, 104, 130, 145).
Rerun ==
  /\ pc = "done" /\ run = 1
  /\ run' = 2
  /\ out1' = output
  /\ output' = <<>>
  /\ pc' = "main"
  /\ UNCHANGED <<web, cutoff, fi, raw, ii, ai_items, kept, sigs, triples, log>>

Next ==
  \/ Start
  \/ FetchFeed
  \/ FetchReturn
  \/ FilterItem
  \/ FilterReturn
  \/ DedupItem
  \/ DedupReturn
  \/ TripletItem
  \/ PrintTriples
  \/ Rerun

Spec == Init /\ [][Next]_vars

(***************************************************************************)
(* simple_dedup on its own: every sequence of up to MaxItems items of      *)
(* DEDUP_ITEMS, as filter_ai hands them over.                              *)
(***************************************************************************)
Item(title, summary, text, link, date) ==
  [title |-> title, link |-> link, source |-> netloc(link),
   summary |-> summary, date |-> date, text |-> text]

\* An item as fetch_entries and filter_ai leave it.
Accepted(it) ==
  /\ it.title = strip(it.title)
  /\ it.link = strip(it.link) /\ it.link # <<>>
  /\ it.summary = clean_text(it.summary)
  /\ it.text = clean_text(it.text)
  /\ Accepts(it, it.text)

\*  1, 2, 3  three, four and five words, each holding the one before: 1 and 2
\*           are 3/4 alike, 2 and 3 are 4/5 alike, 1 and 3 are 3/5 alike
\*  4, 5     seven words and ten that hold them: 7/10 alike
\*  6        two of the words of 1: 2/3 alike
\*  7, 8     no word of two letters or more in title and text
\*  9        the summary of 10, and a text with other words
\* 10        the words of 1, two of them in the summary, no text
DEDUP_ITEMS ==
  { Item(<<"a","i"," ","b","2"," ","c","3">>, <<>>, <<>>, LINK_1, isoformat(25)),
    Item(<<"a","i"," ","b","2"," ","c","3"," ","d","4">>, <<>>, <<>>, LINK_2, NoDate),
    Item(<<"a","i"," ","b","2"," ","c","3"," ","d","4"," ","e","5">>, <<>>, <<>>, LINK_3, NoDate),
    Item(<<"a","i"," ","n","1"," ","n","2"," ","n","3"," ","n","4"," ","n","5"," ","n","6">>, <<>>, <<>>, LINK_4, NoDate),
    Item(<<"a","i"," ","n","1"," ","n","2"," ","n","3"," ","n","4"," ","n","5"," ","n","6">>, <<"n","7"," ","n","8"," ","n","9">>, <<>>, LINK_5, NoDate),
    Item(<<"a","i"," ","b","2">>, <<>>, <<>>, LINK_6, NoDate),
    Item(<<>>, <<"a","i">>, <<"?">>, LINK_7, NoDate),
    Item(<<"a">>, <<"l","l","m">>, <<"!"," ","-">>, LINK_8, isoformat(24)),
    Item(<<"a","i">>, <<"b","2"," ","c","3">>, <<"z","z"," ","y","y">>, LINK_9, NoDate),
    Item(<<"a","i">>, <<"b","2"," ","c","3">>, <<>>, <<"h","t","t","p",":","/","/","d",".","i","o","/","1","0">>, NoDate) }

\* The most items simple_dedup is given.
MaxItems == 3

InitDedup ==
  /\ raw \in UNION {[1..n -> {it \in DEDUP_ITEMS : Accepted(it)}] : n \in 0..MaxItems}
  /\ ai_items = [k \in 1..Len(raw) |-> k]
  /\ log = Concat([k \in 1..Len(raw) |-> <<"fetch", "sleep">>])
  /\ pc = "dedup" /\ ii = 1 /\ kept = <<>> /\ sigs = <<>>
  /\ web = <<>> /\ cutoff = NOW - window_hours /\ fi = Len(FEEDS) + 1
  /\ triples = <<>> /\ output = <<>>
  /\ run = 1 /\ out1 = <<>>

NextDedup ==
  \/ DedupItem
  \/ DedupReturn

SpecDedup == InitDedup /\ [][NextDedup]_vars

(***************************************************************************)
(* to_triplets on its own: one item, with titles, summaries, texts and     *)
(* links that are short, or within Slack characters of the cap.            *)
(***************************************************************************)
\* How far from MAX_TEXT_PER_ITEM the long strings are.
Slack == 2

NearCap == (MAX_TEXT_PER_ITEM - Slack)..(MAX_TEXT_PER_ITEM + Slack)

\* One word of n characters that holds a keyword.
LongWord(n) == <<"a", "i">> \o Rep("x", n - 2)

\* Titles as line 78 leaves them.
TRIPLET_TITLES ==
  {t \in {<<>>, <<"a","i"," ","n","e","w","s">>, <<"a","b"," ">> \o LongWord(MAX_TEXT_PER_ITEM)}
           \cup {LongWord(n) : n \in NearCap}
           \cup {LongWord(n) \o <<" ","y","y","y">> : n \in NearCap} :
     t = strip(t)}

\* Summaries as line 81 leaves them.
TRIPLET_SUMMARIES ==
  {s \in {<<>>, <<"a","i"," ","s","u","m">>, LongWord(MAX_TEXT_PER_ITEM) \o <<" ","z","z">>} :
     s = clean_text(s)}

\* Texts as fetch_article_text returns them.
TRIPLET_TEXTS ==
  {f \in {<<>>, <<"a","i"," ","b","o","d","y">>, LongWord(MAX_TEXT_PER_ITEM + Slack)}
           \cup {LongWord(n) \o <<" ","z","z","z">> : n \in NearCap} :
     f = clean_text(f)}

\* Links as line 79 leaves them.
TRIPLET_LINKS ==
  {l \in {LINK_1, <<"h","t","t","p",":","/","/","a",".","i","o","/">> \o LongWord(MAX_TEXT_PER_ITEM)} :
     l = strip(l) /\ l # <<>>}

TRIPLET_DATES == {NoDate, isoformat(25)}

\* The titles, summaries and texts that filter_ai lets through together.
TRIPLET_CONTENTS ==
  {c \in [title : TRIPLET_TITLES, summary : TRIPLET_SUMMARIES, text : TRIPLET_TEXTS] :
     Accepts(c, c.text)}

InitTriplets ==
  /\ raw \in UNION { {<<Item(c.title, c.summary, c.text, l, d)>> :
                         l \in TRIPLET_LINKS, d \in TRIPLET_DATES} :
                      c \in TRIPLET_CONTENTS }
  /\ ai_items = <<1>>
  /\ log = <<"fetch", "sleep">>
  /\ kept = <<1>> /\ sigs = <<Signature(raw[1])>>
  /\ pc = "triplets" /\ ii = 1 /\ triples = <<>>
  /\ web = <<>> /\ cutoff = NOW - window_hours /\ fi = Len(FEEDS) + 1
  /\ output = <<>>
  /\ run = 1 /\ out1 = <<>>

NextTriplets ==
  \/ TripletItem
  \/ PrintTriples

SpecTriplets == InitTriplets /\ [][NextTriplets]_vars

(***************************************************************************)
(* What the claims speak of.                                               *)
(***************************************************************************)
\* The places <<f, k>> of the entries the run has read so far, in feed order.
EntryPlaces ==
  {p \in (1..(fi - 1)) \X (1..MaxEntries) :
     web[p[1]].kind = "ok" /\ p[2] <= Len(web[p[1]].entries)}
EntryAt(p) == web[p[1]].entries[p[2]]
Before(p, q) == p[1] < q[1] \/ (p[1] = q[1] /\ p[2] < q[2])

\* An item without what filter_ai adds to it.
WithoutText(it) == [it EXCEPT !.text = NONE]
RawItems == {WithoutText(raw[i]) : i \in 1..Len(raw)}
Retained(e) == EntryItem(e) \in RawItems

\* The items filter_ai has decided on.
Classified ==
  IF pc = "filter" THEN 1..(ii - 1)
  ELSE IF pc \in {"dedup", "triplets", "done"} THEN 1..Len(raw)
  ELSE {}

\* The printed list of records (none before the print).
Records == IF Len(output) = 1 THEN output[1] ELSE <<>>

KeywordIn(text) == \E n \in DOMAIN AI_KEYWORDS : Contains(lower(text), AI_KEYWORDS[n])

\* C1: in fetch_entries, an entry with a title and a link is excluded when it
\* has a parseable timestamp before the cutoff, retained when it has no
\* parseable timestamp, and retained when its timestamp is the cutoff or later.
C1_WindowFilter ==
  \A p \in EntryPlaces :
     LET e == EntryAt(p)
         dt == EntryTime(e)
     IN  HasTitleAndLink(e) =>
           /\ (dt.kind = "ok" /\ dt.t < NOW - window_hours) => ~Retained(e)
           /\ dt.kind # "ok" => Retained(e)
           /\ (dt.kind = "ok" /\ dt.t >= NOW - window_hours) => Retained(e)

\* C1's case: all feeds are read; an entry before the cutoff is gone and an
\* entry whose time tuples are both rejected is there.
C1_Witness ==
  /\ pc = "filter"
  /\ \E p \in EntryPlaces :
        /\ HasTitleAndLink(EntryAt(p))
        /\ EntryTime(EntryAt(p)).kind = "ok" /\ EntryTime(EntryAt(p)).t < cutoff
        /\ ~Retained(EntryAt(p))
  /\ \E p \in EntryPlaces :
        /\ HasTitleAndLink(EntryAt(p))
        /\ EntryAt(p).published_parsed.kind = "bad"
        /\ EntryTime(EntryAt(p)).kind = "none"
        /\ Retained(EntryAt(p))

\* What C5 says filter_ai keeps.
ClaimKeeps(it, full) ==
  LET basis == it.title \o <<" ">> \o it.summary
  IN  \/ KeywordIn(basis)
      \/ ~KeywordIn(basis) /\ full # <<>> /\ KeywordIn(it.title \o <<" ">> \o full)

\* C5: filter_ai keeps an item exactly when its title and summary hold a
\* keyword (whatever the extractor returns), or they hold none and the
\* extracted text is not empty and holds one with the title.
C5_TopicClassifier ==
  \A i \in Classified :
     LET full == fetch_article_text(Page(raw[i].link))
     IN  /\ raw[i].text = full
         /\ (i \in Range(ai_items)) <=> ClaimKeeps(raw[i], full)

\* C5's case: an item kept on its title and summary with nothing extracted,
\* and an item dropped.
C5_Witness ==
  /\ pc = "done"
  /\ \E i \in Range(ai_items) :
        KeywordIn(raw[i].title \o <<" ">> \o raw[i].summary) /\ raw[i].text = <<>>
  /\ \E i \in 1..Len(raw) : i \notin Range(ai_items)

\* The items of the entries of a feed that are in the window, in order; none
\* for a feed that failed.
InWindow(e) ==
  /\ HasTitleAndLink(e)
  /\ ~(EntryTime(e).kind = "ok" /\ EntryTime(e).t < NOW - window_hours)
InWindowItems(response) ==
  IF response.kind = "raise" THEN <<>>
  ELSE LET es == SelectSeq(response.entries, InWindow)
       IN  [k \in 1..Len(es) |-> EntryItem(es[k])]

\* The guards of the actions of Next, stage by stage: in each stage before the
\* end, the step of the loop or the return of the stage can be taken.
HasNextStep ==
  \/ pc = "main"
  \/ pc = "fetch" /\ (fi <= Len(FEEDS) \/ fi > Len(FEEDS))
  \/ pc = "filter" /\ (ii <= Len(raw) \/ ii > Len(raw))
  \/ pc = "dedup" /\ (ii <= Len(ai_items) \/ ii > Len(ai_items))
  \/ pc = "triplets" /\ (ii <= Len(kept) \/ ii > Len(kept))

\* C8: a feed that fails is skipped and the others are read: the result of
\* fetch_entries is the in-window entries of the feeds that did not fail, in
\* feed order; a page that fails gives the empty text; and the run is never
\* stopped before its end, where it has printed.
C8_FailuresDoNotAbort ==
  /\ pc \in {"filter", "dedup", "triplets", "done"} =>
       [i \in 1..Len(raw) |-> WithoutText(raw[i])]
         = Concat([f \in 1..Len(FEEDS) |-> InWindowItems(web[f])])
  /\ \A i \in Classified : Page(raw[i].link).kind # "text" => raw[i].text = <<>>
  /\ pc = "done" => Len(output) = 1
  /\ pc # "done" => HasNextStep

\* C8's case: the first feed failed, the second gave an item whose page
\* failed, and the run has printed a record.
C8_Witness ==
  /\ pc = "done"
  /\ web[1].kind = "raise" /\ web[2].kind = "ok"
  /\ \E i \in 1..Len(raw) : Page(raw[i].link).kind = "raise"
  /\ Len(Records) >= 1

\* The record to_triplets makes of an entry alone (with the page of its link).
ClaimRecord(e) ==
  Triplet([EntryItem(e) EXCEPT !.text = fetch_article_text(Page(strip(e.link)))])

\* C9 as stated: every record's url is the link of exactly one entry of the
\* run, and the record is made of that entry.
C9_ExactlyOneEntry ==
  pc = "done" =>
    \A k \in 1..Len(Records) :
       LET same == {p \in EntryPlaces :
                      HasTitleAndLink(EntryAt(p)) /\ strip(EntryAt(p).link) = Records[k][2]}
       IN  /\ Cardinality(same) = 1
           /\ \A p \in same : Records[k] = ClaimRecord(EntryAt(p))

\* C9, amended: every record is made of one entry of the run alone (its url is
\* that entry's link, its text and date are that entry's), and the records
\* follow the order of their entries; an entry that was removed gives nothing.
C9_OneEntryEach ==
  pc = "done" =>
    /\ \A k \in 1..Len(Records) :
          \E p \in EntryPlaces :
             HasTitleAndLink(EntryAt(p)) /\ Records[k] = ClaimRecord(EntryAt(p))
    /\ \A k1, k2 \in 1..Len(Records) :
          k1 < k2 =>
            \E p, q \in EntryPlaces :
               /\ Before(p, q)
               /\ Records[k1] = ClaimRecord(EntryAt(p))
               /\ Records[k2] = ClaimRecord(EntryAt(q))

\* C9's case: a near-duplicate with another link and another date was removed
\* and a record was printed.
C9_Witness ==
  /\ pc = "done" /\ Len(Records) >= 1
  /\ \E i \in Range(ai_items), j \in Range(kept) :
        /\ i \notin Range(kept)
        /\ raw[i].link # raw[j].link /\ raw[i].date # raw[j].date

\* C10: a second run on the same fetched data, with the same clock, prints
\* what the first run printed.
C10_Idempotent ==
  (run = 2 /\ pc = "done") => output = out1

\* C10's case: the second run has printed two records.
C10_Witness ==
  /\ run = 2 /\ pc = "done"
  /\ Len(Records) = 2

(***************************************************************************)
(* simple_dedup.                                                           *)
(***************************************************************************)
\* How many of the items simple_dedup was given it has gone through.
DedupSeen == IF pc = "dedup" THEN ii - 1 ELSE Len(ai_items)

\* The k-th item simple_dedup was given.
DedupInput(k) == raw[ai_items[k]]

\* Whether the k-th item is in the list simple_dedup returns.
IsKept(k) == \E i \in 1..Len(kept) : kept[i] = ai_items[k]

\* The signature as the specification words it: the words of the title, a
\* space, and the full text when there is one, the summary when there is not.
ClaimSig(it) ==
  normalize_words(it.title \o <<" ">> \o
                  (IF it.text # NONE /\ it.text # <<>> THEN it.text ELSE it.summary))

\* Intersection over union at least 0.7; 0 when either set is empty.
Similar(a, b) ==
  /\ a # {} /\ b # {}
  /\ 10 * Cardinality(a \cap b) >= 7 * Cardinality(a \cup b)

\* C2 as stated: of any two items that are alike, the later one is dropped,
\* whatever comes before or between them.
C2_LaterAlwaysDropped ==
  \A k \in 1..DedupSeen : \A j \in 1..(k - 1) :
    Similar(ClaimSig(DedupInput(j)), ClaimSig(DedupInput(k))) => ~IsKept(k)

\* C2, amended: of two items that are alike, the later one is dropped whenever
\* the earlier one is kept; an item is dropped only for being like an earlier
\* item that is kept.
C2_LaterDroppedWhenEarlierKept ==
  \A k \in 1..DedupSeen :
    /\ \A j \in 1..(k - 1) :
         (IsKept(j) /\ Similar(ClaimSig(DedupInput(j)), ClaimSig(DedupInput(k))))
           => ~IsKept(k)
    /\ ~IsKept(k) =>
         \E j \in 1..(k - 1) :
           IsKept(j) /\ Similar(ClaimSig(DedupInput(j)), ClaimSig(DedupInput(k)))

\* C2's case: three items, the second like the first and dropped, the third
\* like the second, unlike the first, and kept.
C2_Witness ==
  /\ pc = "triplets" /\ Len(ai_items) = 3
  /\ kept = <<ai_items[1], ai_items[3]>>
  /\ Similar(ClaimSig(DedupInput(1)), ClaimSig(DedupInput(2)))
  /\ Similar(ClaimSig(DedupInput(2)), ClaimSig(DedupInput(3)))
  /\ ~Similar(ClaimSig(DedupInput(1)), ClaimSig(DedupInput(3)))

\* C6: simple_dedup returns its items in the order it got them, each at most
\* once; an item is kept exactly when its signature is less than 0.7 like the
\* signature of every item kept before it; the signature is made of the title
\* and the full text, or the summary when there is no full text; and only the
\* signatures of kept items are held for the items that follow.
C6_DedupSubsequence ==
  /\ \A i \in 1..Len(kept) : \E k \in 1..DedupSeen : kept[i] = ai_items[k]
  /\ \A i, j \in 1..Len(kept) :
       i < j => \E k, l \in 1..DedupSeen :
                  k < l /\ kept[i] = ai_items[k] /\ kept[j] = ai_items[l]
  /\ \A k \in 1..DedupSeen :
       IsKept(k) <=>
         \A j \in 1..(k - 1) :
           IsKept(j) => ~Similar(ClaimSig(DedupInput(j)), ClaimSig(DedupInput(k)))
  /\ sigs = [i \in 1..Len(kept) |-> ClaimSig(raw[kept[i]])]

\* C6's case: three items gone through, one of them dropped, and one kept
\* whose full text has other words than its summary.
C6_Witness ==
  /\ pc = "triplets" /\ Len(ai_items) = 3 /\ Len(kept) = 2
  /\ \E i \in 1..Len(kept) :
       LET it == raw[kept[i]]
       IN  /\ it.text # <<>>
           /\ ClaimSig(it) # normalize_words(it.title \o <<" ">> \o it.summary)

\* C7: an item with an empty signature is always kept, and no item is dropped
\* for being like it: jaccard is 0 whenever one of its sets is empty, and every
\* dropped item is like a kept item whose signature is not empty.
C7_EmptySignature ==
  /\ \A k \in 1..DedupSeen : ClaimSig(DedupInput(k)) = {} => IsKept(k)
  /\ \A k \in 1..DedupSeen : \A j \in 1..(k - 1) :
       (ClaimSig(DedupInput(j)) = {} \/ ClaimSig(DedupInput(k)) = {})
         => /\ jaccard(Signature(DedupInput(j)), Signature(DedupInput(k)))[1] = 0
            /\ ~IsDuplicate(Signature(DedupInput(k)), <<Signature(DedupInput(j))>>)
  /\ \A k \in 1..DedupSeen :
       ~IsKept(k) =>
         /\ ClaimSig(DedupInput(k)) # {}
         /\ \E j \in 1..(k - 1) :
              /\ IsKept(j) /\ ClaimSig(DedupInput(j)) # {}
              /\ Similar(ClaimSig(DedupInput(j)), ClaimSig(DedupInput(k)))

\* C7's case: two items with empty signatures, one after the other, then an
\* item with words; all three are kept.
C7_Witness ==
  /\ pc = "triplets" /\ Len(ai_items) = 3 /\ Len(kept) = 3
  /\ ClaimSig(DedupInput(1)) = {} /\ ClaimSig(DedupInput(2)) = {}
  /\ ClaimSig(DedupInput(3)) # {}

(***************************************************************************)
(* to_triplets.                                                            *)
(***************************************************************************)
\* The text to_triplets picks for an item, before anything is cut from it.
ClaimSelected(it) ==
  LET title == strip(it.title)
      summary == strip(it.summary)
      full == IF it.text = NONE THEN <<>> ELSE strip(it.text)
  IN  IF title # <<>> /\ summary # <<>> THEN title \o <<" ", EM_DASH, " ">> \o summary
      ELSE IF title # <<>> THEN title
      ELSE IF full # <<>> THEN full
      ELSE it.link

\* The first n characters of orig stop inside a word: the n-th character and
\* the one after it are both not spaces.
SplitsWord(orig, n) ==
  /\ 1 <= n /\ n < Len(orig)
  /\ orig[n] # " " /\ orig[n + 1] # " "

\* What text keeps of orig: all of it but a closing ellipsis marker.
RetainedLen(text) ==
  IF text # <<>> /\ text[Len(text)] = ELLIPSIS THEN Len(text) - 1 ELSE Len(text)

\* C3: the text of every record, the ellipsis marker counted, is at most
\* MAX_TEXT_PER_ITEM characters long.
C3_TextWithinCap ==
  \A i \in 1..Len(triples) : Len(triples[i][1]) <= MAX_TEXT_PER_ITEM

\* C4: when the text picked for a record is longer than the cap, what the
\* record keeps of it is a prefix that does not stop inside a word, and, but
\* for the page text that is cut to the cap as it is picked, the ellipsis
\* marker follows.
C4_NoWordSplit ==
  \A i \in 1..Len(triples) :
    LET it == raw[kept[i]]
        orig == ClaimSelected(it)
        text == triples[i][1]
        n == RetainedLen(text)
    IN  Len(orig) > MAX_TEXT_PER_ITEM =>
          /\ SubSeq(text, 1, n) = SubSeq(orig, 1, n)
          /\ ~SplitsWord(orig, n)
          /\ (strip(it.title) # <<>> \/ it.text \in {NONE, <<>>})
               => text[Len(text)] = ELLIPSIS

\* The text C11 says is picked for an item: title, dash and summary; else the
\* title; else the page text, no more of it than the cap; else the link.
ClaimPick(it) ==
  IF it.title # <<>> /\ it.summary # <<>>
    THEN it.title \o <<" ">> \o <<EM_DASH>> \o <<" ">> \o it.summary
  ELSE IF it.title # <<>> THEN it.title
  ELSE IF it.text # <<>>
    THEN [k \in 1..(IF Len(it.text) < MAX_TEXT_PER_ITEM THEN Len(it.text)
                                                        ELSE MAX_TEXT_PER_ITEM) |-> it.text[k]]
  ELSE it.link

\* C11: the text of a record is picked in this order: title, dash and summary
\* when both are there; else the title; else the page text, cut to the cap and
\* without a dash; else the link.  A pick within the cap is the record's text
\* as it is; a longer one is there as a prefix with the ellipsis marker.  The
\* url of the record is the link of the item and its date is the item's date.
C11_TextSelection ==
  \A i \in 1..Len(triples) :
    LET it == raw[kept[i]]
        pick == ClaimPick(it)
        text == triples[i][1]
    IN  /\ Len(pick) <= MAX_TEXT_PER_ITEM => text = pick
        /\ Len(pick) > MAX_TEXT_PER_ITEM =>
              /\ text[Len(text)] = ELLIPSIS
              /\ Len(text) - 1 <= MAX_TEXT_PER_ITEM
              /\ SubSeq(text, 1, Len(text) - 1) = SubSeq(pick, 1, Len(text) - 1)
        /\ triples[i][2] = it.link
        /\ triples[i][3] = it.date

\* C11's case: a record made of an item with no title, a summary, and a page
\* text longer than the cap: its text is the first characters of the page text.
C11_Witness ==
  /\ pc = "done" /\ Len(Records) = 1
  /\ raw[kept[1]].title = <<>> /\ raw[kept[1]].summary # <<>>
  /\ Len(raw[kept[1]].text) > MAX_TEXT_PER_ITEM
  /\ Records[1][1] = SubSeq(raw[kept[1]].text, 1, MAX_TEXT_PER_ITEM)
  /\ Records[1][3] # NoDate

(***************************************************************************)
(* filter_ai: the calls of fetch_article_text and of time.sleep, in order. *)
(***************************************************************************)
\* How many pauses filter_ai has taken.
Pauses == Cardinality({k \in 1..Len(log) : log[k] = "sleep"})

\* C12: in filter_ai the pause is taken after every item, kept or dropped: the
\* pauses are as many as the items gone through, and no two page fetches
\* follow one another without a pause between them.
C12_PauseAfterEveryItem ==
  pc \in {"filter", "dedup", "triplets", "done"} =>
    /\ Pauses = Cardinality(Classified)
    /\ \A k \in 1..(Len(log) - 1) : ~(log[k] = "fetch" /\ log[k + 1] = "fetch")

=============================================================================
